---- MODULE Spec2Model ----
(***************************************************************************)
(* Subscription store of subscriptio_core.py: the Subscription entity,    *)
(* DateValidator, SubscriptionManager (the JSON store file) and            *)
(* ExportManager.to_json.                                                  *)
(*                                                                         *)
(* Text is a sequence of one-character strings, so that str.strip() and    *)
(* datetime.strptime(..., "%Y-%m-%d") are computed character by character. *)
(* The store file is the list of dicts json.dump wrote (a dict is a        *)
(* function from key names to values, a key may be absent), or a           *)
(* truncated text that json.load rejects.  The Arabic literals of the      *)
(* source are written in ASCII: "general" is the default category.         *)
(***************************************************************************)
EXTENDS Integers, Sequences, FiniteSets, TLC

VARIABLES file, now, last, exported, today, backup_file, settings,
          settings_file, tree, current_subscriptions, selection, pending,
          pc_backup

(* The window of the application (the rows of the table, the list behind   *)
(* them and the selected row), the write a store call has begun and the    *)
(* position of the auto-backup thread.                                     *)
app == <<tree, current_subscriptions, selection, pending, pc_backup>>

(* What the store operations leave alone: the calendar day, the backup     *)
(* copy, the application settings and the application.                     *)
env == <<today, backup_file, settings, settings_file, app>>

vars == <<file, now, last, exported, env>>

(***************************************************************************)
(* Bounds of the model.                                                    *)
(***************************************************************************)
MaxSubs == 2
MaxClock == 6000
MaxRaw == 3

(***************************************************************************)
(* The clock.  now is datetime.now() in microseconds; timestamp() is       *)
(* now / UsPerSec seconds and the id is int(timestamp() * MsPerSec).       *)
(***************************************************************************)
UsPerSec == 1000000
MsPerSec == 1000
Epoch == 5000
ClockSteps == {500, 1000}

(***************************************************************************)
(* Text helpers.                                                           *)
(***************************************************************************)
Whitespace == {" ", "\t", "\n"}

RECURSIVE lstrip(_)
lstrip(s) ==
    IF s # <<>> /\ Head(s) \in Whitespace THEN lstrip(Tail(s)) ELSE s

RECURSIVE rstrip(_)
rstrip(s) ==
    IF s # <<>> /\ s[Len(s)] \in Whitespace
    THEN rstrip(SubSeq(s, 1, Len(s) - 1))
    ELSE s

strip(s) == rstrip(lstrip(s))

(***************************************************************************)
(* datetime.strptime(date_str, "%Y-%m-%d"): the format compiles to the     *)
(* regular expression                                                      *)
(*   (\d\d\d\d)-(1[0-2]|0[1-9]|[1-9])-(3[01]|[12]\d|0[1-9]|[1-9]| [1-9])   *)
(* matched at the start of the text; text left over after the match, a     *)
(* year 0 or a day beyond the month's length raise ValueError.             *)
(***************************************************************************)
Digits == {"0", "1", "2", "3", "4", "5", "6", "7", "8", "9"}
NonZero == Digits \ {"0"}

DigitVal(c) ==
    CASE c = "0" -> 0 [] c = "1" -> 1 [] c = "2" -> 2 [] c = "3" -> 3
      [] c = "4" -> 4 [] c = "5" -> 5 [] c = "6" -> 6 [] c = "7" -> 7
      [] c = "8" -> 8 [] c = "9" -> 9 [] OTHER -> 0

At(s, i) == IF i >= 1 /\ i <= Len(s) THEN s[i] ELSE ""

YearLen(s) ==
    IF \A i \in 1..4 : At(s, i) \in Digits THEN 4 ELSE 0

MonthLen(s, i) ==
    IF At(s, i) = "1" /\ At(s, i + 1) \in {"0", "1", "2"} THEN 2
    ELSE IF At(s, i) = "0" /\ At(s, i + 1) \in NonZero THEN 2
    ELSE IF At(s, i) \in NonZero THEN 1
    ELSE 0

DayLen(s, i) ==
    IF At(s, i) = "3" /\ At(s, i + 1) \in {"0", "1"} THEN 2
    ELSE IF At(s, i) \in {"1", "2"} /\ At(s, i + 1) \in Digits THEN 2
    ELSE IF At(s, i) = "0" /\ At(s, i + 1) \in NonZero THEN 2
    ELSE IF At(s, i) \in NonZero THEN 1
    ELSE IF At(s, i) = " " /\ At(s, i + 1) \in NonZero THEN 2
    ELSE 0

RECURSIVE NumVal(_, _, _)
NumVal(s, i, n) ==
    IF n = 0 THEN 0
    ELSE NumVal(s, i, n - 1) * 10 + DigitVal(At(s, i + n - 1))

IsLeap(y) == (y % 4 = 0 /\ y % 100 # 0) \/ y % 400 = 0

DaysInMonth(y, m) ==
    IF m = 2 THEN (IF IsLeap(y) THEN 29 ELSE 28)
    ELSE IF m \in {4, 6, 9, 11} THEN 30
    ELSE 31

NoDate == [ok |-> FALSE, y |-> 0, m |-> 0, d |-> 0]

strptime(s) ==
    LET yl == YearLen(s)
        ml == MonthLen(s, 6)
        dl == DayLen(s, 7 + ml)
    IN  IF yl = 0 \/ At(s, 5) # "-" \/ ml = 0 \/ At(s, 6 + ml) # "-"
           \/ dl = 0 \/ Len(s) # 6 + ml + dl
        THEN NoDate
        ELSE LET y == NumVal(s, 1, 4)
                 m == NumVal(s, 6, ml)
                 d == NumVal(s, 7 + ml, dl)
             IN  IF y < 1 \/ d > DaysInMonth(y, m)
                 THEN NoDate
                 ELSE [ok |-> TRUE, y |-> y, m |-> m, d |-> d]

(* DateValidator.is_valid: empty text is invalid, otherwise strptime decides. *)
is_valid(date_str) ==
    IF date_str = <<>> THEN FALSE ELSE strptime(date_str).ok

(* Ordering key of the datetime that Subscription.date returns. *)
DateKey(date_str) ==
    LET p == strptime(date_str) IN p.y * 10000 + p.m * 100 + p.d

(***************************************************************************)
(* Subscription.                                                           *)
(***************************************************************************)
NowMs(t) == (t * MsPerSec) \div UsPerSec

(* isoformat() of a microsecond timestamp is one text per instant: the     *)
(* instant stands for its text.                                            *)
isoformat(t) == t

DefaultCategory == <<"g", "e", "n", "e", "r", "a", "l">>

(* subscription_id is the set {} for None and {n} for the integer n. *)
Subscription(name, date_str, price, category, notes, subscription_id, t) ==
    [id |-> IF subscription_id = {} \/ subscription_id = {0}
            THEN NowMs(t)
            ELSE CHOOSE n \in subscription_id : TRUE,
     name |-> name,
     date_str |-> date_str,
     price |-> price,
     category |-> category,
     notes |-> notes,
     created_at |-> isoformat(t)]

to_dict(sub) ==
    [id |-> sub.id,
     name |-> sub.name,
     date |-> sub.date_str,
     price |-> sub.price,
     category |-> sub.category,
     notes |-> sub.notes,
     created_at |-> sub.created_at]

(* data['name'] and data['date'] raise KeyError when the key is absent. *)
from_dict_raises(data) ==
    "name" \notin DOMAIN data \/ "date" \notin DOMAIN data

from_dict(data, t) ==
    Subscription(data.name,
                 data.date,
                 IF "price" \in DOMAIN data THEN data.price ELSE 0,
                 IF "category" \in DOMAIN data THEN data.category
                                               ELSE DefaultCategory,
                 IF "notes" \in DOMAIN data THEN data.notes ELSE <<>>,
                 IF "id" \in DOMAIN data THEN {data.id} ELSE {},
                 t)

(***************************************************************************)
(* The store file.                                                         *)
(***************************************************************************)
JsonFile(data) == [kind |-> "json", data |-> data]
Truncated == [kind |-> "truncated", data |-> <<>>]

(* A file json.load reads without a JSONDecodeError but not as a list:     *)
(* bytes that are not UTF-8 (UnicodeDecodeError), or a JSON scalar such as *)
(* null or 5, which no caller can iterate or append to.                    *)
Unreadable == [kind |-> "unreadable", data |-> <<>>]

(* SubscriptionManager._load_all: JSONDecodeError and FileNotFoundError    *)
(* give the empty list.                                                    *)
_load_all(f) == IF f.kind = "json" THEN f.data ELSE <<>>

(* The errors _load_all does not catch, which every caller re-raises. *)
_load_all_raises(f) == f.kind = "unreadable"

(* The three outcomes of `with open(filename, 'w') as f: json.dump(...)`:  *)
(* the text is written whole; open() fails and the file is untouched; or   *)
(* open() has truncated the file and the write fails part-way, which       *)
(* leaves a strict prefix of the new text (never a complete array).        *)
Faults == {"none", "open", "write"}

write_json(f, data, fault) ==
    IF fault = "none" THEN [file |-> JsonFile(data), raised |-> FALSE]
    ELSE IF fault = "open" THEN [file |-> f, raised |-> TRUE]
    ELSE [file |-> Truncated, raised |-> TRUE]

(* Variant of name_invalid that measures the name without strip(). *)
name_invalid_unstripped(name) == name = <<>> \/ Len(name) < 2

name_invalid(name) == name = <<>> \/ Len(strip(name)) < 2

(* SubscriptionManager.save_subscription *)
save_subscription(f, sub, fault) ==
    IF name_invalid(sub.name) THEN [file |-> f, raised |-> TRUE]
    ELSE IF ~is_valid(sub.date_str) THEN [file |-> f, raised |-> TRUE]
    ELSE IF _load_all_raises(f) THEN [file |-> f, raised |-> TRUE]
    ELSE write_json(f, Append(_load_all(f), to_dict(sub)), fault)

(* The for/else of update_subscription: the first dict with the id is      *)
(* overwritten in place (break), 0 when the loop ends without a match.     *)
first_match(subs, id) ==
    IF \E i \in 1..Len(subs) : subs[i].id = id
    THEN CHOOSE i \in 1..Len(subs) :
            subs[i].id = id /\ \A j \in 1..(i - 1) : subs[j].id # id
    ELSE 0

set_fields(sub, name, date_str, price, category, notes) ==
    [k \in DOMAIN sub \cup {"name", "date", "price", "category", "notes"} |->
        CASE k = "name" -> name
          [] k = "date" -> date_str
          [] k = "price" -> price
          [] k = "category" -> category
          [] k = "notes" -> notes
          [] OTHER -> sub[k]]

(* Variant of updated_list without the break: every dict with the id is  *)
(* overwritten.                                                            *)
updated_list_no_break(subs, id, name, date_str, price, category, notes) ==
    [i \in 1..Len(subs) |->
        IF subs[i].id = id
        THEN set_fields(subs[i], name, date_str, price, category, notes)
        ELSE subs[i]]

updated_list(subs, id, name, date_str, price, category, notes) ==
    [i \in 1..Len(subs) |->
        IF i = first_match(subs, id)
        THEN set_fields(subs[i], name, date_str, price, category, notes)
        ELSE subs[i]]

(* Variant of update_subscription without the else branch of the loop:   *)
(* an unknown id rewrites the list as loaded and returns True.             *)
update_subscription_no_else(f, id, name, date_str, price, category, notes, fault) ==
    IF _load_all_raises(f) THEN [file |-> f, raised |-> TRUE] ELSE
    write_json(f, updated_list(_load_all(f), id, name, date_str, price,
                               category, notes), fault)

(* SubscriptionManager.update_subscription *)
update_subscription(f, id, name, date_str, price, category, notes, fault) ==
    LET subs == _load_all(f) IN
    IF _load_all_raises(f) THEN [file |-> f, raised |-> TRUE]
    ELSE IF first_match(subs, id) = 0 THEN [file |-> f, raised |-> TRUE]
    ELSE write_json(f, updated_list(subs, id, name, date_str, price,
                                    category, notes), fault)

(* Variant of without_id that drops only the first dict with the id. *)
RECURSIVE without_first_id(_, _)
without_first_id(subs, id) ==
    IF subs = <<>> THEN <<>>
    ELSE IF Head(subs).id # id
         THEN <<Head(subs)>> \o without_first_id(Tail(subs), id)
         ELSE Tail(subs)

RECURSIVE without_id(_, _)
without_id(subs, id) ==
    IF subs = <<>> THEN <<>>
    ELSE IF Head(subs).id # id
         THEN <<Head(subs)>> \o without_id(Tail(subs), id)
         ELSE without_id(Tail(subs), id)

(* SubscriptionManager.delete_subscription *)
delete_subscription(f, id, fault) ==
    IF _load_all_raises(f) THEN [file |-> f, raised |-> TRUE]
    ELSE write_json(f, without_id(_load_all(f), id), fault)

(***************************************************************************)
(* SubscriptionManager.load_subscriptions: a dict from_dict rejects is     *)
(* skipped; list.sort(key=lambda x: x.date) is stable and evaluates the    *)
(* key of every element, so one unparseable date makes the call raise.     *)
(***************************************************************************)
RECURSIVE parsed(_, _)
parsed(data, t) ==
    IF data = <<>> THEN <<>>
    ELSE IF from_dict_raises(Head(data)) THEN parsed(Tail(data), t)
         ELSE <<from_dict(Head(data), t)>> \o parsed(Tail(data), t)

(* Variant of insert_by_date that keeps the order of the file. *)
insert_at_end(sorted, x) == Append(sorted, x)

RECURSIVE insert_by_date(_, _)
insert_by_date(sorted, x) ==
    IF sorted = <<>> THEN <<x>>
    ELSE IF DateKey(sorted[Len(sorted)].date_str) <= DateKey(x.date_str)
         THEN Append(sorted, x)
         ELSE Append(insert_by_date(SubSeq(sorted, 1, Len(sorted) - 1), x),
                     sorted[Len(sorted)])

RECURSIVE sort_by_date(_)
sort_by_date(subs) ==
    IF subs = <<>> THEN <<>>
    ELSE insert_by_date(sort_by_date(SubSeq(subs, 1, Len(subs) - 1)),
                        subs[Len(subs)])

load_subscriptions(f, t) ==
    LET subs == parsed(_load_all(f), t) IN
    IF _load_all_raises(f) THEN [raised |-> TRUE, subs |-> <<>>]
    ELSE IF \E i \in 1..Len(subs) : ~strptime(subs[i].date_str).ok
    THEN [raised |-> TRUE, subs |-> <<>>]
    ELSE [raised |-> FALSE, subs |-> sort_by_date(subs)]

(* ExportManager.to_json *)
to_json(subs) == JsonFile([i \in 1..Len(subs) |-> to_dict(subs[i])])

(***************************************************************************)
(* Inputs: what the callers (the form dialog, create_sample_data) pass.    *)
(***************************************************************************)
Date0215 == <<"2", "0", "2", "4", "-", "0", "2", "-", "1", "5">>
Date25 == <<"2", "0", "2", "4", "-", "2", "-", "5">>
Date0230 == <<"2", "0", "2", "4", "-", "0", "2", "-", "3", "0">>
Date1301 == <<"2", "0", "2", "4", "-", "1", "3", "-", "0", "1">>

NameNet == <<"N", "e", "t">>
NameAb == <<"a", "b">>
NamePaddedA == <<" ", "a", " ">>
NameBlank == <<" ", " ", " ">>

CatFun == <<"f", "u", "n">>
NoteHd == <<"h", "d">>

Form(name, date_str, price, category, notes) ==
    [name |-> name, date_str |-> date_str, price |-> price,
     category |-> category, notes |-> notes]

ValidForms ==
    {Form(NameNet, Date0215, 45, CatFun, NoteHd),
     Form(NameAb, Date25, 0, DefaultCategory, <<>>)}

InvalidForms ==
    {Form(NamePaddedA, Date0215, 45, CatFun, <<>>),
     Form(NameBlank, Date0215, 45, CatFun, <<>>),
     Form(<<>>, Date0215, 45, CatFun, <<>>),
     Form(NameNet, Date0230, 45, CatFun, <<>>),
     Form(NameNet, Date1301, 45, CatFun, <<>>),
     Form(NameNet, <<>>, 45, CatFun, <<>>)}

AddForms == ValidForms \cup InvalidForms

(* update_subscription is reached with any field values: it validates none. *)
UpdateForms ==
    ValidForms \cup {Form(NamePaddedA, Date0230, 7, CatFun, NoteHd)}

NoForm == Form(<<>>, <<>>, 0, <<>>, <<>>)

(* An id no Subscription of the model is ever given. *)
UnknownIds == {1}

StoredIds(f) == {_load_all(f)[i].id : i \in 1..Len(_load_all(f))}

(***************************************************************************)
(* The calendar.  today is datetime.now().date(); date subtraction is the  *)
(* difference of the proleptic Gregorian ordinals (date.toordinal).        *)
(***************************************************************************)
DaysBeforeYear(y) ==
    (y - 1) * 365 + (y - 1) \div 4 - (y - 1) \div 100 + (y - 1) \div 400

RECURSIVE DaysBeforeMonth(_, _)
DaysBeforeMonth(y, m) ==
    IF m <= 1 THEN 0
    ELSE DaysBeforeMonth(y, m - 1) + DaysInMonth(y, m - 1)

toordinal(p) == DaysBeforeYear(p.y) + DaysBeforeMonth(p.y, p.m) + p.d

(* Subscription.days_remaining; the date of a loaded subscription parses. *)
days_remaining(sub, day) == toordinal(strptime(sub.date_str)) - toordinal(day)

(* Variant of status with the urgent and expiring-soon limits off by one. *)
status_shifted(sub, day) ==
    LET days == days_remaining(sub, day) IN
    IF days < 0 THEN "expired"
    ELSE IF days = 0 THEN "due_today"
    ELSE IF days < 3 THEN "urgent"
    ELSE IF days < 7 THEN "expiring_soon"
    ELSE "active"

(* Subscription.status *)
status(sub, day) ==
    LET days == days_remaining(sub, day) IN
    IF days < 0 THEN "expired"
    ELSE IF days = 0 THEN "due_today"
    ELSE IF days <= 3 THEN "urgent"
    ELSE IF days <= 7 THEN "expiring_soon"
    ELSE "active"

StartDay == [ok |-> TRUE, y |-> 2024, m |-> 2, d |-> 24]

Missing == [kind |-> "missing", data |-> <<>>]

(* The application starts with no backup copy and no settings file. *)
(* No write is in progress. *)
NoPending == [kind |-> "none", data |-> <<>>]

(* The application is not running: no window and no auto-backup thread. *)
InitApp ==
    /\ tree = <<>>
    /\ current_subscriptions = <<>>
    /\ selection = 0
    /\ pending = NoPending
    /\ pc_backup = "done"

InitEnv ==
    /\ InitApp
    /\ today = StartDay
    /\ backup_file = Missing
    /\ settings = <<>>
    /\ settings_file = Missing

(***************************************************************************)
(* State.  file is the store file, now the clock, exported the file        *)
(* to_json wrote; last is the call that ran last: its arguments, the file  *)
(* before it, the injected write outcome, whether it raised and the list   *)
(* it returned.                                                            *)
(***************************************************************************)
Call(op, id, form, fault, before, raised, subs) ==
    [op |-> op, id |-> id, form |-> form, fault |-> fault,
     before |-> before, raised |-> raised, subs |-> subs]

NoExport == [kind |-> "absent", data |-> <<>>]

(* SubscriptionManager.__init__ on a missing file: _ensure_file_exists     *)
(* writes the empty list.                                                  *)
Init ==
    /\ file = JsonFile(<<>>)
    /\ now = Epoch
    /\ last = Call("init", 0, NoForm, "none", JsonFile(<<>>), FALSE, <<>>)
    /\ exported = NoExport
    /\ InitEnv

Tick ==
    /\ \E d \in ClockSteps : now + d <= MaxClock /\ now' = now + d
    /\ UNCHANGED <<file, last, exported, env>>

(* _add_subscription / create_sample_data: Subscription(...) without an    *)
(* id, then save_subscription.                                             *)
AddWith(forms, faults) ==
    \E form \in forms, fault \in faults :
        LET sub == Subscription(form.name, form.date_str, form.price,
                                form.category, form.notes, {}, now)
            r == save_subscription(file, sub, fault)
        IN  /\ Len(_load_all(r.file)) <= MaxSubs
            /\ file' = r.file
            /\ last' = Call("add", sub.id, form, fault, file, r.raised, <<>>)
            /\ UNCHANGED <<now, exported, env>>

Add == AddWith(AddForms, Faults)

UpdateWith(forms, faults) ==
    \E id \in StoredIds(file) \cup UnknownIds, form \in forms,
       fault \in faults :
        LET r == update_subscription(file, id, form.name, form.date_str,
                                     form.price, form.category, form.notes,
                                     fault)
        IN  /\ file' = r.file
            /\ last' = Call("update", id, form, fault, file, r.raised, <<>>)
            /\ UNCHANGED <<now, exported, env>>

Update == UpdateWith(UpdateForms, Faults)

DeleteWith(faults) ==
    \E id \in StoredIds(file) \cup UnknownIds, fault \in faults :
        LET r == delete_subscription(file, id, fault)
        IN  /\ file' = r.file
            /\ last' = Call("delete", id, NoForm, fault, file, r.raised, <<>>)
            /\ UNCHANGED <<now, exported, env>>

Delete == DeleteWith(Faults)

(* _refresh_list: load_subscriptions at the current time. *)
Load ==
    LET r == load_subscriptions(file, now)
    IN  /\ last' = Call("load", 0, NoForm, "none", file, r.raised, r.subs)
        /\ UNCHANGED <<file, now, exported, env>>

Next == Tick \/ Add \/ Update \/ Delete \/ Load

Spec == Init /\ [][Next]_vars

(***************************************************************************)
(* Vocabulary of the properties.                                           *)
(***************************************************************************)
Before == _load_all(last.before)
After == _load_all(file)

RemoveAt(seq, k) ==
    SubSeq(seq, 1, k - 1) \o SubSeq(seq, k + 1, Len(seq))

FirstNonSpace(s) ==
    IF \E i \in 1..Len(s) : s[i] \notin Whitespace
    THEN CHOOSE i \in 1..Len(s) :
            s[i] \notin Whitespace /\ \A j \in 1..(i - 1) : s[j] \in Whitespace
    ELSE 0

LastNonSpace(s) ==
    IF \E i \in 1..Len(s) : s[i] \notin Whitespace
    THEN CHOOSE i \in 1..Len(s) :
            s[i] \notin Whitespace
            /\ \A j \in (i + 1)..Len(s) : s[j] \in Whitespace
    ELSE 0

TrimmedLen(s) ==
    IF FirstNonSpace(s) = 0 THEN 0
    ELSE LastNonSpace(s) - FirstNonSpace(s) + 1

FormIsValid(form) ==
    TrimmedLen(form.name) >= 2 /\ strptime(form.date_str).ok

HasFormFields(sub, form) ==
    /\ sub.name = form.name
    /\ sub.date_str = form.date_str
    /\ sub.price = form.price
    /\ sub.category = form.category
    /\ sub.notes = form.notes

Mutating == last.op \in {"add", "update", "delete"}

(* C1: add of a valid subscription followed by loadAll returns the         *)
(* previous entries plus exactly one more entry, which has the added       *)
(* subscription's name, date, price, category and notes and an id that no  *)
(* previous entry has.                                                     *)
C1_AddThenLoadAll ==
    (/\ last.op = "add"
     /\ last.fault = "none"
     /\ FormIsValid(last.form)
     /\ ~load_subscriptions(last.before, now).raised)
    => LET old == load_subscriptions(last.before, now).subs
           new == load_subscriptions(file, now)
       IN  /\ ~last.raised
           /\ ~new.raised
           /\ Len(new.subs) = Len(old) + 1
           /\ \E k \in 1..Len(new.subs) :
                /\ RemoveAt(new.subs, k) = old
                /\ HasFormFields(new.subs[k], last.form)
                /\ \A j \in 1..Len(old) : old[j].id # new.subs[k].id

(* C2: add with a name of fewer than 2 trimmed characters, or with a date  *)
(* that does not parse, raises and leaves the store file as it was.        *)
C2_AddRejectsInvalid ==
    (last.op = "add" /\ ~FormIsValid(last.form))
    => (last.raised /\ file = last.before)

C2_Witness ==
    /\ last.op = "add"
    /\ ~FormIsValid(last.form)
    /\ last.raised
    /\ Len(Before) >= 1

UniqueIds ==
    \A i, j \in 1..Len(After) : i # j => After[i].id # After[j].id

IdsKept ==
    (last.op \in {"add", "update"} /\ ~last.raised)
    => \A i \in 1..Len(Before) : After[i].id = Before[i].id

(* C3: no two persisted entries have the same id, and an add or update     *)
(* leaves the id of every entry persisted before it unchanged.             *)
C3_UniqueStableIds == UniqueIds /\ IdsKept

(* C4: a write failure inside add, update or delete is reported and        *)
(* leaves the persisted collection as it was before the call.              *)
C4_WriteFailureKeepsFile ==
    (Mutating /\ last.fault # "none")
    => (last.raised /\ After = Before)

(* C5: update of an id that no persisted entry has raises and leaves the   *)
(* store file unchanged.                                                   *)
C5_UpdateUnknownId ==
    (last.op = "update" /\ \A i \in 1..Len(Before) : Before[i].id # last.id)
    => (last.raised /\ file = last.before)

C5_Witness ==
    /\ last.op = "update"
    /\ \A i \in 1..Len(Before) : Before[i].id # last.id
    /\ last.raised
    /\ Len(Before) >= 1

(* C6: a successful update sets name, date, price, category and notes of   *)
(* one entry with that id, keeps that entry's id and created_at, and       *)
(* keeps every other entry, the number of entries and their order.         *)
C6_UpdateFrame ==
    (last.op = "update" /\ ~last.raised)
    => /\ Len(After) = Len(Before)
       /\ \E k \in 1..Len(Before) :
            /\ Before[k].id = last.id
            /\ After[k].name = last.form.name
            /\ After[k].date = last.form.date_str
            /\ After[k].price = last.form.price
            /\ After[k].category = last.form.category
            /\ After[k].notes = last.form.notes
            /\ After[k].id = Before[k].id
            /\ After[k].created_at = Before[k].created_at
            /\ DOMAIN After[k] = DOMAIN Before[k]
            /\ \A j \in 1..Len(Before) : j # k => After[j] = Before[j]

C6_Witness ==
    /\ last.op = "update"
    /\ ~last.raised
    /\ Len(After) >= 2
    /\ file # last.before

KeepsOtherIds(r) == r.id # last.id

(* C7: delete, when the write goes through, does not raise and leaves the  *)
(* previous collection without the entries of that id, the others in       *)
(* their order; with no entry of that id the collection is unchanged.      *)
C7_DeleteRemovesId ==
    (last.op = "delete" /\ last.fault = "none")
    => /\ ~last.raised
       /\ file.kind = "json"
       /\ After = SelectSeq(Before, KeepsOtherIds)
       /\ (\A i \in 1..Len(Before) : Before[i].id # last.id)
            => After = Before

C7_Witness ==
    /\ last.op = "delete"
    /\ ~last.raised
    /\ Len(After) >= 1
    /\ Len(After) < Len(Before)

(* C9: the created_at that loadAll shows for an entry is the created_at    *)
(* stored for it when it was added.                                        *)
C9_CreatedAtPreserved ==
    (last.op = "load" /\ ~last.raised)
    => \A i \in 1..Len(last.subs) :
         \E j \in 1..Len(After) :
            /\ After[j].id = last.subs[i].id
            /\ After[j].created_at = last.subs[i].created_at

(***************************************************************************)
(* Loading and exporting a store file that the program did not write       *)
(* itself: the manager is constructed on an existing file whose records    *)
(* may lack keys or hold a date that does not parse.                       *)
(***************************************************************************)
RawRecords ==
    {[id |-> 3, name |-> NameNet, date |-> Date0215, price |-> 45,
      category |-> CatFun, notes |-> NoteHd, created_at |-> 1000],
     [id |-> 4, name |-> NameAb, date |-> Date25, price |-> 0,
      category |-> DefaultCategory, notes |-> <<>>, created_at |-> 2000],
     [name |-> NameAb, date |-> Date0215],
     [id |-> 7, date |-> Date0215, price |-> 45],
     [id |-> 8, name |-> NameNet, price |-> 45],
     [id |-> 9, name |-> NameNet, date |-> Date1301, price |-> 45,
      category |-> CatFun, notes |-> <<>>, created_at |-> 3000]}

RECURSIVE RawLists(_)
RawLists(n) ==
    IF n = 0 THEN {<<>>}
    ELSE RawLists(n - 1)
         \cup {Append(l, r) : l \in {x \in RawLists(n - 1) : Len(x) = n - 1},
                              r \in RawRecords}

(* SubscriptionManager.__init__ on an existing file: it is left as found. *)
InitLoad ==
    /\ file \in {JsonFile(l) : l \in RawLists(MaxRaw)}
    /\ now = Epoch
    /\ last = Call("init", 0, NoForm, "none", file, FALSE, <<>>)
    /\ exported = NoExport
    /\ InitEnv

(* _export_data with a .json name: load_subscriptions, then to_json. *)
Export ==
    LET r == load_subscriptions(file, now)
    IN  /\ exported' = IF r.raised THEN exported ELSE to_json(r.subs)
        /\ last' = Call("export", 0, NoForm, "none", file, r.raised, r.subs)
        /\ UNCHANGED <<file, now, env>>

NextLoad == Tick \/ Load \/ Export

SpecLoad == InitLoad /\ [][NextLoad]_vars

Malformed(r) ==
    \/ "name" \notin DOMAIN r
    \/ "date" \notin DOMAIN r
    \/ ~strptime(r.date).ok

MalformedAt(data) == {i \in 1..Len(data) : Malformed(data[i])}

RECURSIVE WellFormed(_)
WellFormed(data) ==
    IF data = <<>> THEN <<>>
    ELSE IF Malformed(Head(data)) THEN WellFormed(Tail(data))
         ELSE <<Head(data)>> \o WellFormed(Tail(data))

ShowsRecord(sub, r) ==
    /\ sub.name = r.name
    /\ sub.date_str = r.date
    /\ "id" \in DOMAIN r => sub.id = r.id
    /\ "price" \in DOMAIN r => sub.price = r.price

(* C8: loading a file with one malformed record (a missing required field  *)
(* or an unparseable date) among valid records does not raise and returns  *)
(* exactly the valid records.                                              *)
C8_MalformedRecordSkipped ==
    (/\ last.op = "load"
     /\ Cardinality(MalformedAt(After)) = 1
     /\ Len(After) >= 2)
    => /\ ~last.raised
       /\ Len(last.subs) = Len(After) - 1
       /\ \A i \in 1..Len(WellFormed(After)) :
            \E j \in 1..Len(last.subs) :
                ShowsRecord(last.subs[j], WellFormed(After)[i])

ValidSubscription(sub) ==
    /\ TrimmedLen(sub.name) >= 2
    /\ strptime(sub.date_str).ok
    /\ sub.id > 0
    /\ sub.price >= 0

(* C10: a collection of valid subscriptions written by to_json and loaded  *)
(* back through the store's loader gives the same entries: the same id,    *)
(* name, date, price, category, notes and created_at.                      *)
C10_JsonRoundTrip ==
    (/\ last.op = "export"
     /\ ~last.raised
     /\ \A i \in 1..Len(last.subs) : ValidSubscription(last.subs[i]))
    => LET back == load_subscriptions(exported, now)
       IN  /\ ~back.raised
           /\ back.subs = last.subs

(* C11: two loadAll calls with no mutation in between return the same     *)
(* list (every field of every entry, in the same order), and loadAll       *)
(* leaves the store file as it was.                                        *)
C11_LoadAllTwice ==
    (last.op = "load" /\ ~last.raised)
    => /\ file = last.before
       /\ load_subscriptions(file, now) = [raised |-> FALSE, subs |-> last.subs]

Entry(id, name, date_str, price, category, notes) ==
    [id |-> id, name |-> name, date_str |-> date_str, price |-> price,
     category |-> category, notes |-> notes]

SubEntry(sub) ==
    Entry(sub.id, sub.name, sub.date_str, sub.price, sub.category, sub.notes)

RecEntry(r) == Entry(r.id, r.name, r.date, r.price, r.category, r.notes)

DateNotAfter(a, b) ==
    LET p == strptime(a)
        q == strptime(b)
    IN  \/ p.y < q.y
        \/ p.y = q.y /\ p.m < q.m
        \/ p.y = q.y /\ p.m = q.m /\ p.d <= q.d

(* C12: the list loadAll returns holds every persisted subscription        *)
(* exactly once, and renewal dates never decrease along it.                *)
C12_LoadAllSortedComplete ==
    (last.op = "load" /\ ~last.raised)
    => /\ Len(last.subs) = Len(After)
       /\ \A j \in 1..Len(After) :
            Cardinality({i \in 1..Len(last.subs) :
                            SubEntry(last.subs[i]) = RecEntry(After[j])})
            = Cardinality({k \in 1..Len(After) :
                            RecEntry(After[k]) = RecEntry(After[j])})
       /\ \A i, j \in 1..Len(last.subs) :
            i < j => DateNotAfter(last.subs[i].date_str, last.subs[j].date_str)

C12_Witness ==
    /\ last.op = "load"
    /\ ~last.raised
    /\ Len(After) >= 2
    /\ ~DateNotAfter(After[1].date, After[2].date)

(***************************************************************************)
(* Queries over the store: status display, alerts, search and totals.      *)
(***************************************************************************)
MaxView == 2
MaxDays == 11

UpperCase ==
    <<"A", "B", "C", "D", "E", "F", "G", "H", "I", "J", "K", "L", "M",
      "N", "O", "P", "Q", "R", "S", "T", "U", "V", "W", "X", "Y", "Z">>

LowerCase ==
    <<"a", "b", "c", "d", "e", "f", "g", "h", "i", "j", "k", "l", "m",
      "n", "o", "p", "q", "r", "s", "t", "u", "v", "w", "x", "y", "z">>

(* str.lower() *)
lower(s) ==
    [i \in 1..Len(s) |->
        IF \E k \in 1..Len(UpperCase) : UpperCase[k] = s[i]
        THEN LowerCase[CHOOSE k \in 1..Len(UpperCase) : UpperCase[k] = s[i]]
        ELSE s[i]]

(* x in y for two texts: x is a run of consecutive characters of y. *)
contains(y, x) ==
    \E off \in 0..(Len(y) - Len(x)) : SubSeq(y, off + 1, off + Len(x)) = x

(* The sentinel of the category filter that selects every category. *)
AllCategories == <<"a", "l", "l">>

(* Variant of name_matches that compares the name as stored. *)
name_matches_cased(sub, query) == contains(sub.name, lower(query))

name_matches(sub, query) == contains(lower(sub.name), lower(query))

RECURSIVE filter_name(_, _)
filter_name(subs, query) ==
    IF subs = <<>> THEN <<>>
    ELSE IF name_matches(Head(subs), query)
         THEN <<Head(subs)>> \o filter_name(Tail(subs), query)
         ELSE filter_name(Tail(subs), query)

RECURSIVE filter_category(_, _)
filter_category(subs, category) ==
    IF subs = <<>> THEN <<>>
    ELSE IF Head(subs).category = category
         THEN <<Head(subs)>> \o filter_category(Tail(subs), category)
         ELSE filter_category(Tail(subs), category)

(* SubscriptionManager.search_subscriptions *)
search_subscriptions(f, query, category, t) ==
    LET r == load_subscriptions(f, t)
        named == IF query # <<>> THEN filter_name(r.subs, query) ELSE r.subs
    IN  IF r.raised THEN r
        ELSE [raised |-> FALSE,
              subs |-> IF category # AllCategories
                       THEN filter_category(named, category)
                       ELSE named]

RECURSIVE sum_price(_)
sum_price(subs) ==
    IF subs = <<>> THEN 0 ELSE Head(subs).price + sum_price(Tail(subs))

(* SubscriptionManager.get_total_monthly_cost *)
get_total_monthly_cost(f, t) ==
    LET r == load_subscriptions(f, t)
    IN  [raised |-> r.raised, subs |-> IF r.raised THEN 0 ELSE sum_price(r.subs)]

(* SubscriptionManager.get_categories: the distinct categories; the order  *)
(* sorted() gives the list is not modelled.                                *)
get_categories(f, t) ==
    LET r == load_subscriptions(f, t)
    IN  [raised |-> r.raised,
         subs |-> {r.subs[i].category : i \in 1..Len(r.subs)}]

Alert(type, priority, sub, days) ==
    [type |-> type, priority |-> priority, subscription |-> sub,
     message |-> <<sub.name, days>>]

(* Variant of alert_for that stops warning one day early. *)
alert_for_early(sub, day) ==
    LET days == days_remaining(sub, day) IN
    IF days <= 0 THEN <<Alert("expired", "high", sub, days)>>
    ELSE IF days <= 3 THEN <<Alert("urgent", "medium", sub, days)>>
    ELSE IF days < 7 THEN <<Alert("warning", "low", sub, days)>>
    ELSE <<>>

(* The if/elif chain of check_alerts: the alerts one subscription adds. *)
alert_for(sub, day) ==
    LET days == days_remaining(sub, day) IN
    IF days <= 0 THEN <<Alert("expired", "high", sub, days)>>
    ELSE IF days <= 3 THEN <<Alert("urgent", "medium", sub, days)>>
    ELSE IF days <= 7 THEN <<Alert("warning", "low", sub, days)>>
    ELSE <<>>

RECURSIVE alerts_of(_, _)
alerts_of(subs, day) ==
    IF subs = <<>> THEN <<>>
    ELSE alert_for(Head(subs), day) \o alerts_of(Tail(subs), day)

(* SmartAlertSystem.check_alerts *)
check_alerts(f, t, day) ==
    LET r == load_subscriptions(f, t)
    IN  [raised |-> r.raised,
         subs |-> IF r.raised THEN <<>> ELSE alerts_of(r.subs, day)]

CountPriority(alerts, priority) ==
    Cardinality({i \in 1..Len(alerts) : alerts[i].priority = priority})

(* SmartAlertSystem.get_daily_summary *)
get_daily_summary(f, t, day) ==
    LET r == check_alerts(f, t, day)
    IN  [raised |-> r.raised,
         subs |-> IF r.raised THEN <<>>
                  ELSE [total_alerts |-> Len(r.subs),
                        high_priority |-> CountPriority(r.subs, "high"),
                        medium_priority |-> CountPriority(r.subs, "medium"),
                        alerts |-> r.subs]]

(* Stored subscriptions whose renewal dates lie around StartDay. *)
Date0228 == <<"2", "0", "2", "4", "-", "0", "2", "-", "2", "8">>
Date33 == <<"2", "0", "2", "4", "-", "3", "-", "3">>
NameNetflix == <<"N", "e", "t", "f", "l", "i", "x">>
NameTv == <<"T", "V", " ", "n", "e", "t">>

ViewRecords ==
    {[id |-> 3, name |-> NameNetflix, date |-> Date0228, price |-> 45,
      category |-> CatFun, notes |-> NoteHd, created_at |-> 1000],
     [id |-> 4, name |-> NameAb, date |-> Date33, price |-> 20,
      category |-> CatFun, notes |-> <<>>, created_at |-> 2000],
     [id |-> 6, name |-> NameTv, date |-> Date33, price |-> 0,
      category |-> DefaultCategory, notes |-> <<>>, created_at |-> 3000]}

RECURSIVE ViewLists(_)
ViewLists(n) ==
    IF n = 0 THEN {<<>>}
    ELSE ViewLists(n - 1)
         \cup {Append(l, r) : l \in {x \in ViewLists(n - 1) : Len(x) = n - 1},
                              r \in ViewRecords}

Queries ==
    {<<>>, <<"n", "e", "t">>, <<"N", "E", "T">>, <<"t", "v">>, <<"x">>}

Categories == {AllCategories, CatFun, DefaultCategory}

(* The value a query returned is kept in the subs field of last; its       *)
(* arguments in the form field.                                            *)
Returned(op, arg, raised, value) ==
    Call(op, 0, arg, "none", file, raised, value)

(* The application started on an existing store file. *)
InitSearch ==
    /\ file \in {JsonFile(l) : l \in ViewLists(MaxView)}
    /\ now = Epoch
    /\ last = Call("init", 0, NoForm, "none", file, FALSE, <<>>)
    /\ exported = NoExport
    /\ InitEnv

(* The date after p. *)
NextDate(p) ==
    IF p.d < DaysInMonth(p.y, p.m) THEN [p EXCEPT !.d = p.d + 1]
    ELSE IF p.m < 12 THEN [p EXCEPT !.m = p.m + 1, !.d = 1]
    ELSE [p EXCEPT !.y = p.y + 1, !.m = 1, !.d = 1]

RECURSIVE DaysFrom(_, _)
DaysFrom(p, n) ==
    IF n = 0 THEN {p} ELSE {p} \cup DaysFrom(NextDate(p), n - 1)

(* The application started on an existing store file, on StartDay or on    *)
(* one of the MaxDays days after it.                                       *)
InitView ==
    /\ file \in {JsonFile(l) : l \in ViewLists(MaxView)}
    /\ now = Epoch
    /\ last = Call("init", 0, NoForm, "none", file, FALSE, <<>>)
    /\ exported = NoExport
    /\ today \in DaysFrom(StartDay, MaxDays)
    /\ InitApp
    /\ backup_file = Missing
    /\ settings = <<>>
    /\ settings_file = Missing

(* The rows of _refresh_list: days_remaining and status of every entry. *)
ShowStatus ==
    LET r == load_subscriptions(file, now)
    IN  /\ last' = Returned("status", NoForm, r.raised,
                     [i \in 1..Len(r.subs) |->
                        [sub |-> r.subs[i],
                         days |-> days_remaining(r.subs[i], today),
                         status |-> status(r.subs[i], today)]])
        /\ UNCHANGED <<file, now, exported, env>>

Scan ==
    LET r == check_alerts(file, now, today)
    IN  /\ last' = Returned("scan", NoForm, r.raised, r.subs)
        /\ UNCHANGED <<file, now, exported, env>>

Summary ==
    LET r == get_daily_summary(file, now, today)
    IN  /\ last' = Returned("summary", NoForm, r.raised, r.subs)
        /\ UNCHANGED <<file, now, exported, env>>

SearchWith(queries, categories) ==
    \E query \in queries, category \in categories :
        LET r == search_subscriptions(file, query, category, now)
        IN  /\ last' = Returned("search",
                                [query |-> query, category |-> category],
                                r.raised, r.subs)
            /\ UNCHANGED <<file, now, exported, env>>

Search == SearchWith(Queries, Categories)

TotalCost ==
    LET r == get_total_monthly_cost(file, now)
    IN  /\ last' = Returned("total", NoForm, r.raised, r.subs)
        /\ UNCHANGED <<file, now, exported, env>>

ListCategories ==
    LET r == get_categories(file, now)
    IN  /\ last' = Returned("categories", NoForm, r.raised, r.subs)
        /\ UNCHANGED <<file, now, exported, env>>

(* Status display and alerts. *)
NextView == ShowStatus \/ Scan \/ Summary

SpecView == InitView /\ [][NextView]_vars

(* Search and totals over a store. *)
NextSearch == Search \/ TotalCost \/ ListCategories

SpecSearch == InitSearch /\ [][NextSearch]_vars

(***************************************************************************)
(* Vocabulary of the properties about days, alerts and search.             *)
(***************************************************************************)
Span == MaxDays + 31

(* The number of days to step forward from a to reach b, -1 if b is not    *)
(* reached within n days.                                                  *)
RECURSIVE StepsTo(_, _, _)
StepsTo(a, b, n) ==
    IF a = b THEN 0
    ELSE IF n = 0 THEN -1
    ELSE LET r == StepsTo(NextDate(a), b, n - 1)
         IN  IF r < 0 THEN -1 ELSE r + 1

DayDiff(t, d) ==
    IF StepsTo(t, d, Span) >= 0 THEN StepsTo(t, d, Span)
    ELSE 0 - StepsTo(d, t, Span)

DaysLeft(sub) == DayDiff(today, strptime(sub.date_str))

StatusOf(n) ==
    CASE n < 0 -> "expired"
      [] n = 0 -> "due_today"
      [] n \in 1..3 -> "urgent"
      [] n \in 4..7 -> "expiring_soon"
      [] n > 7 -> "active"

(* C14: days_remaining is the renewal date minus today in whole days, and  *)
(* status is Expired below 0, DueToday at 0, Urgent for 1..3, ExpiringSoon *)
(* for 4..7 and Active above 7.                                            *)
C14_StatusTable ==
    (last.op = "status" /\ ~last.raised)
    => \A i \in 1..Len(last.subs) :
         /\ last.subs[i].days = DaysLeft(last.subs[i].sub)
         /\ last.subs[i].status = StatusOf(DaysLeft(last.subs[i].sub))

C14_Witness ==
    /\ last.op = "status"
    /\ ~last.raised
    /\ \E i, j \in 1..Len(last.subs) :
         /\ last.subs[i].days = -1 /\ last.subs[i].status = "expired"
         /\ last.subs[j].days = 3 /\ last.subs[j].status = "urgent"

DueWithinWeek(sub) == DaysLeft(sub) <= 7

AlertKind(n) ==
    CASE n <= 0 -> [type |-> "expired", priority |-> "high"]
      [] n \in 1..3 -> [type |-> "urgent", priority |-> "medium"]
      [] n \in 4..7 -> [type |-> "warning", priority |-> "low"]
      [] OTHER -> [type |-> "none", priority |-> "none"]

(* C15: scan returns exactly one alert for each stored subscription with   *)
(* at most 7 days remaining and none for the others; the alert is Expired  *)
(* and High at 0 or below, Urgent and Medium for 1..3, Warning and Low     *)
(* for 4..7.                                                               *)
C15_ScanAlerts ==
    (last.op = "scan" /\ ~last.raised)
    => LET due == SelectSeq(load_subscriptions(file, now).subs, DueWithinWeek)
       IN  /\ Len(last.subs) = Len(due)
           /\ \A i \in 1..Len(due) :
                /\ last.subs[i].subscription = due[i]
                /\ last.subs[i].type = AlertKind(DaysLeft(due[i])).type
                /\ last.subs[i].priority = AlertKind(DaysLeft(due[i])).priority

C15_Witness ==
    /\ last.op = "scan"
    /\ ~last.raised
    /\ Len(After) = 2
    /\ Len(last.subs) = 1
    /\ last.subs[1].type = "warning"
    /\ DaysLeft(last.subs[1].subscription) = 4

ReportedCount(summary, key) ==
    IF key \in DOMAIN summary THEN summary[key] ELSE 0

(* C16: summary reports the total number of alerts, the number of alerts   *)
(* of each priority and the alert list of scan; the counts by priority     *)
(* add up to the total, and the store is left unchanged.                   *)
C16_SummaryCounts ==
    (last.op = "summary" /\ ~last.raised)
    => /\ last.subs.total_alerts = Len(last.subs.alerts)
       /\ last.subs.alerts = check_alerts(file, now, today).subs
       /\ file = last.before
       /\ ReportedCount(last.subs, "high_priority")
          + ReportedCount(last.subs, "medium_priority")
          + ReportedCount(last.subs, "low_priority")
          = last.subs.total_alerts

SameLetter(a, b) ==
    \/ a = b
    \/ \E k \in 1..Len(UpperCase) : {a, b} = {UpperCase[k], LowerCase[k]}

NameHas(name, query) ==
    \E off \in 0..(Len(name) - Len(query)) :
        \A i \in 1..Len(query) : SameLetter(name[off + i], query[i])

SearchHit(sub) ==
    /\ NameHas(sub.name, last.form.query)
    /\ last.form.category # AllCategories
         => sub.category = last.form.category

(* C17: search returns, in loadAll order, exactly the entries whose name   *)
(* contains the query as a case-insensitive substring and, unless the      *)
(* category is the "all" sentinel, whose category equals the category;     *)
(* the empty query with "all" returns the full collection.                 *)
C17_SearchFilter ==
    (last.op = "search" /\ ~last.raised)
    => /\ last.subs = SelectSeq(load_subscriptions(file, now).subs, SearchHit)
       /\ (last.form.query = <<>> /\ last.form.category = AllCategories)
            => last.subs = load_subscriptions(file, now).subs

C17_Witness ==
    /\ last.op = "search"
    /\ ~last.raised
    /\ last.form.query = <<"N", "E", "T">>
    /\ last.form.category = CatFun
    /\ Len(After) = 2
    /\ Len(last.subs) = 1
    /\ last.subs[1].name = NameNetflix

(***************************************************************************)
(* The store file on disk: construction, backup, restore and removal.      *)
(***************************************************************************)

(* SubscriptionManager._ensure_file_exists *)
_ensure_file_exists(f) == IF f.kind = "missing" THEN JsonFile(<<>>) ELSE f

(* shutil.copy2(src, dst): dst becomes a copy of the bytes of src; open()  *)
(* of dst fails and dst is untouched; or dst is opened and the copy fails  *)
(* part-way.                                                               *)
copy2(src, dst, fault) ==
    IF fault = "none" THEN [file |-> src, raised |-> FALSE]
    ELSE IF fault = "open" THEN [file |-> dst, raised |-> TRUE]
    ELSE [file |-> Truncated, raised |-> TRUE]

(* Variant of create_backup without the os.path.exists test: copy2 of a    *)
(* missing source raises.                                                  *)
create_backup_unchecked(f, b, fault) ==
    IF f.kind = "missing" THEN [file |-> b, raised |-> TRUE, ok |-> FALSE]
    ELSE LET r == copy2(f, b, fault)
         IN  [file |-> r.file, raised |-> r.raised, ok |-> ~r.raised]

(* SubscriptionManager.create_backup: file is the backup after the call. *)
create_backup(f, b, fault) ==
    IF f.kind = "missing" THEN [file |-> b, raised |-> FALSE, ok |-> FALSE]
    ELSE LET r == copy2(f, b, fault)
         IN  [file |-> r.file, raised |-> r.raised, ok |-> ~r.raised]

(* Variant of restore_backup that appends the backup to the store. *)
restore_backup_merged(f, b, fault) ==
    IF b.kind = "missing" THEN [file |-> f, raised |-> FALSE, ok |-> FALSE]
    ELSE LET r == copy2(JsonFile(_load_all(f) \o _load_all(b)), f, fault)
         IN  [file |-> r.file, raised |-> r.raised, ok |-> ~r.raised]

(* SubscriptionManager.restore_backup: file is the store after the call. *)
restore_backup(f, b, fault) ==
    IF b.kind = "missing" THEN [file |-> f, raised |-> FALSE, ok |-> FALSE]
    ELSE LET r == copy2(b, f, fault)
         IN  [file |-> r.file, raised |-> r.raised, ok |-> ~r.raised]

(* The files a store can be constructed on. *)
StoreFiles ==
    {Missing, Truncated, Unreadable} \cup {JsonFile(l) : l \in ViewLists(1)}

InitFiles ==
    /\ \E f \in StoreFiles :
         /\ file = _ensure_file_exists(f)
         /\ last = Call("init", 0, NoForm, "none", f, FALSE, <<>>)
    /\ now = Epoch
    /\ exported = NoExport
    /\ InitEnv

(* _backup_data: last.form is the backup file before the call and         *)
(* last.subs the value returned.                                           *)
Backup ==
    \E fault \in Faults :
        LET r == create_backup(file, backup_file, fault)
        IN  /\ backup_file' = r.file
            /\ last' = Call("backup", 0, backup_file, fault, file, r.raised,
                            r.ok)
            /\ UNCHANGED <<file, now, exported, today, settings,
                           settings_file, app>>

Restore ==
    \E fault \in Faults :
        LET r == restore_backup(file, backup_file, fault)
        IN  /\ file' = r.file
            /\ last' = Call("restore", 0, backup_file, fault, file, r.raised,
                            r.ok)
            /\ UNCHANGED <<now, exported, env>>

(* The store file is removed from outside the program. *)
Unlink ==
    /\ file.kind # "missing"
    /\ file' = Missing
    /\ last' = Call("unlink", 0, NoForm, "none", file, FALSE, <<>>)
    /\ UNCHANGED <<now, exported, env>>

(* The store operations with one form, one query and no write fault. *)
FileForms == {Form(NameAb, Date25, 0, DefaultCategory, <<>>)}
AddFile == AddWith(FileForms, {"none"})
UpdateFile == UpdateWith(FileForms, {"none"})
DeleteFile == DeleteWith({"none"})
SearchFile == SearchWith({<<>>}, {AllCategories})

NextFiles ==
    \/ AddFile \/ UpdateFile \/ DeleteFile \/ Load \/ SearchFile
    \/ TotalCost \/ ListCategories \/ Backup \/ Restore \/ Unlink

SpecFiles == InitFiles /\ [][NextFiles]_vars

(***************************************************************************)
(* Vocabulary of the properties about the files.                           *)
(***************************************************************************)
BadFile(f) == f.kind # "json"

Reads == {"load", "search", "total", "categories"}

EmptyAnswer ==
    CASE last.op \in {"load", "search"} -> <<>>
      [] last.op = "total" -> 0
      [] last.op = "categories" -> {}

(* C13: on a store file that is missing or whose content is malformed,     *)
(* loadAll, search, categories and totalMonthlyCost return the empty       *)
(* answer without raising, add of a valid subscription and delete go       *)
(* through, update leaves the file as it is, and a store constructed on a  *)
(* missing file is the empty collection.                                   *)
C13_BadFileIsEmpty ==
    /\ (last.op = "init" /\ last.before = Missing) => file = JsonFile(<<>>)
    /\ (last.op \in Reads /\ BadFile(last.before))
         => (~last.raised /\ last.subs = EmptyAnswer)
    /\ (last.op = "add" /\ BadFile(last.before) /\ FormIsValid(last.form))
         => /\ ~last.raised
            /\ Len(After) = 1
            /\ After[1].name = last.form.name
            /\ After[1].date = last.form.date_str
    /\ (last.op = "delete" /\ BadFile(last.before))
         => (~last.raised /\ file = JsonFile(<<>>))
    /\ (last.op = "update" /\ BadFile(last.before)) => file = last.before

(* C18: a successful backup copies the store to the path and leaves the    *)
(* store unchanged; add, update and delete leave the file at the path      *)
(* unchanged; a successful restore makes the store equal to the file at    *)
(* the path, so that the persisted collection is the one of the backup.    *)
C18_BackupRestore ==
    [][/\ (last'.op = "backup" /\ last'.subs)
            => (backup_file' = file /\ file' = file)
       /\ last'.op \in {"add", "update", "delete"}
            => backup_file' = backup_file
       /\ (last'.op = "restore" /\ last'.subs)
            => /\ file' = backup_file
               /\ backup_file' = backup_file
               /\ _load_all(file') = _load_all(backup_file)]_vars

C18_Witness ==
    /\ last.op = "restore"
    /\ last.subs
    /\ Len(Before) >= 1
    /\ Len(After) >= 1
    /\ \A i \in 1..Len(Before) : \A j \in 1..Len(After) : Before[i] # After[j]

(* C19: backup while the store file does not exist, and restore while the  *)
(* file at the path does not exist, return failure without raising and     *)
(* change neither the store file nor the file at the path.                 *)
C19_MissingSourceFails ==
    /\ (last.op = "backup" /\ last.before.kind = "missing")
         => /\ ~last.raised
            /\ last.subs = FALSE
            /\ file = last.before
            /\ backup_file = last.form
    /\ (last.op = "restore" /\ last.form.kind = "missing")
         => /\ ~last.raised
            /\ last.subs = FALSE
            /\ file = last.before
            /\ backup_file = last.form

C19_Witness ==
    /\ last.op = "backup"
    /\ last.before.kind = "missing"
    /\ backup_file.kind = "json"
    /\ Len(_load_all(backup_file)) >= 1

(***************************************************************************)
(* AppSettings.  A value is the text json.dump writes for it; NotJson      *)
(* stands for a value json.dump has no text for (a datetime, a set).       *)
(***************************************************************************)
default_settings ==
    [window_size |-> "1000x700", theme |-> "default", language |-> "ar",
     auto_backup |-> "true", backup_interval_days |-> "7",
     check_updates_on_start |-> "true", last_backup_date |-> "null",
     email_settings |-> "smtp.gmail.com:587"]

NotJson == "datetime"

SettingsJson(map) == [kind |-> "json", data |-> map]

(* Variant of merged in which a default wins over the file's value. *)
merged_defaults_first(defaults, loaded) ==
    [k \in DOMAIN defaults \cup DOMAIN loaded |->
        IF k \in DOMAIN defaults THEN defaults[k] ELSE loaded[k]]

(* {**default_settings, **loaded_settings} *)
merged(defaults, loaded) ==
    [k \in DOMAIN defaults \cup DOMAIN loaded |->
        IF k \in DOMAIN loaded THEN loaded[k] ELSE defaults[k]]

(* AppSettings._load_settings: a missing file and any exception give the   *)
(* defaults.                                                               *)
_load_settings(sf) ==
    IF sf.kind = "json" THEN merged(default_settings, sf.data)
    ELSE default_settings

(* AppSettings.save_settings: file is the settings file after the call and *)
(* ok the value returned; json.dump of a value without a JSON text raises  *)
(* after open() has truncated the file, and every exception is caught.     *)
save_settings(map, sf, fault) ==
    IF fault = "open" THEN [file |-> sf, ok |-> FALSE]
    ELSE IF fault = "write" \/ \E k \in DOMAIN map : map[k] = NotJson
    THEN [file |-> Truncated, ok |-> FALSE]
    ELSE [file |-> SettingsJson(map), ok |-> TRUE]

(* AppSettings.get *)
get(map, key, default) == IF key \in DOMAIN map THEN map[key] ELSE default

(* AppSettings.set: the value save_settings returns is dropped. *)
set(map, sf, key, value, fault) ==
    LET new == [k \in DOMAIN map \cup {key} |->
                   IF k = key THEN value ELSE map[k]]
    IN  [settings |-> new, file |-> save_settings(new, sf, fault).file]

SetKeys == {"last_backup_date", "zoom"}
SetValues == {"2024-02-24T00:00:00", "dark", NotJson}
NoValue == "None"

(* The settings files the application can start on. *)
SettingsFiles ==
    {Missing, Truncated, SettingsJson(default_settings),
     SettingsJson([zoom |-> "dark"]),
     SettingsJson([theme |-> "dark", zoom |-> "dark"])}

InitSettings ==
    /\ settings_file \in SettingsFiles
    /\ settings = _load_settings(settings_file)
    /\ file = JsonFile(<<>>)
    /\ now = Epoch
    /\ last = Call("init", 0, NoForm, "none", settings_file, FALSE, <<>>)
    /\ exported = NoExport
    /\ today = StartDay
    /\ backup_file = Missing
    /\ InitApp

(* last.form is the key and the value, last.before the settings file       *)
(* before the call.                                                        *)
Set ==
    \E key \in SetKeys, value \in SetValues, fault \in Faults :
        LET r == set(settings, settings_file, key, value, fault)
        IN  /\ settings' = r.settings
            /\ settings_file' = r.file
            /\ last' = Call("set", 0, [key |-> key, value |-> value], fault,
                            settings_file, FALSE, <<>>)
            /\ UNCHANGED <<file, now, exported, today, backup_file, app>>

Get ==
    \E key \in SetKeys \cup {"theme"} :
        /\ last' = Call("get", 0, [key |-> key, value |-> NoValue], "none",
                        settings_file, FALSE, get(settings, key, NoValue))
        /\ UNCHANGED <<file, now, exported, env>>

(* The application is started again: AppSettings() reads the file. *)
Restart ==
    /\ settings' = _load_settings(settings_file)
    /\ last' = Call("restart", 0, NoForm, "none", settings_file, FALSE, <<>>)
    /\ UNCHANGED <<file, now, exported, today, backup_file, settings_file,
                   app>>

NextSettings == Set \/ Get \/ Restart

SpecSettings == InitSettings /\ [][NextSettings]_vars

(* C20: after set(key, value), get(key) returns value and the settings     *)
(* file holds the whole in-memory map, key = value included.               *)
C20_SetPersists ==
    last.op = "set"
    => /\ get(settings, last.form.key, NoValue) = last.form.value
       /\ settings_file = SettingsJson(settings)

(* The keys and values the settings file holds, none when it is missing   *)
(* or is not a JSON object.                                                *)
Loaded == IF settings_file.kind = "json" THEN settings_file.data ELSE <<>>

ProbeKeys == SetKeys \cup DOMAIN default_settings \cup {"volume"}

(* C21: after the settings load, every key of the default schema has the   *)
(* file's value when the file has the key and the default otherwise, every *)
(* other key of the file is kept with the file's value, and get(key,       *)
(* default) returns default exactly for the keys absent from both.         *)
C21_LoadMergesDefaults ==
    last.op \in {"init", "restart"}
    => /\ \A k \in DOMAIN default_settings :
            /\ k \in DOMAIN settings
            /\ settings[k] = IF k \in DOMAIN Loaded THEN Loaded[k]
                             ELSE default_settings[k]
       /\ \A k \in DOMAIN Loaded \ DOMAIN default_settings :
            k \in DOMAIN settings /\ settings[k] = Loaded[k]
       /\ \A k \in ProbeKeys :
            get(settings, k, NoValue) = NoValue
            <=> k \notin DOMAIN default_settings \cup DOMAIN Loaded

C21_Witness ==
    /\ last.op = "restart"
    /\ settings_file.kind = "json"
    /\ "zoom" \in DOMAIN settings
    /\ "last_backup_date" \in DOMAIN Loaded
    /\ settings.last_backup_date # default_settings.last_backup_date
    /\ get(settings, "volume", NoValue) = NoValue

(***************************************************************************)
(* The store under calls whose write goes through: a call that raises      *)
(* (an invalid form, an unknown id) leaves the file as it was, so the file *)
(* is always the result of the calls that returned True.                   *)
(***************************************************************************)
AddDone == AddWith(AddForms, {"none"})
UpdateDone == UpdateWith(UpdateForms, {"none"})
DeleteDone == DeleteWith({"none"})

NextDone == Tick \/ AddDone \/ UpdateDone \/ DeleteDone \/ Load

SpecDone == Init /\ [][NextDone]_vars

(* C22: on a store built from the empty one by add, update and delete      *)
(* calls that returned True, loadAll does not raise and returns every      *)
(* persisted entry.                                                        *)
C22_LoadAfterSuccess ==
    last.op = "load"
    => /\ ~last.raised
       /\ Len(last.subs) = Len(After)
       /\ \A j \in 1..Len(After) :
            \E i \in 1..Len(last.subs) : SubEntry(last.subs[i]) = RecEntry(After[j])

(***************************************************************************)
(* The window of EnhancedSubscriptionApp.  A row of the table is the       *)
(* subscription _refresh_list built it from; selection is the position of  *)
(* the selected row, 0 when none is selected.                              *)
(***************************************************************************)

(* SubscriptionFormDialog._save: the stripped fields, or no result when    *)
(* the name or the date is rejected.                                       *)
dialog_result(form) ==
    LET name == strip(form.name)
        date_str == strip(form.date_str)
        category == IF strip(form.category) = <<>> THEN DefaultCategory
                    ELSE strip(form.category)
    IN  IF name = <<>> \/ Len(name) < 2 \/ ~is_valid(date_str) THEN {}
        ELSE {Form(name, date_str, form.price, category, strip(form.notes))}

(* EnhancedSubscriptionApp._refresh_list: given is {} for the call without *)
(* an argument and {list} for the call with one; only the former assigns   *)
(* current_subscriptions.                                                  *)
_refresh_list(f, t, given, rows, current) ==
    IF given = {}
    THEN LET r == load_subscriptions(f, t)
         IN  IF r.raised THEN [tree |-> rows, current |-> current]
             ELSE [tree |-> r.subs, current |-> r.subs]
    ELSE [tree |-> CHOOSE l \in given : TRUE, current |-> current]

(* What the dialogs are filled with. *)
GuiForms ==
    {Form(NameNet, Date0215, 45, CatFun, NoteHd),
     Form(NamePaddedA, Date0215, 45, CatFun, <<>>)}

GuiQueries == {<<>>, <<"N", "E", "T">>, <<"a", "b">>}

(* EnhancedSubscriptionApp.__init__: the first _refresh_list; the          *)
(* auto-backup thread has finished.                                        *)
InitGui ==
    /\ file \in {JsonFile(l) : l \in ViewLists(MaxView)}
    /\ now = Epoch
    /\ last = Call("init", 0, NoForm, "none", file, FALSE, <<>>)
    /\ exported = NoExport
    /\ today = StartDay
    /\ backup_file = Missing
    /\ settings = <<>>
    /\ settings_file = Missing
    /\ tree = _refresh_list(file, now, {}, <<>>, <<>>).tree
    /\ current_subscriptions = _refresh_list(file, now, {}, <<>>, <<>>).current
    /\ selection = 0
    /\ pending = NoPending
    /\ pc_backup = "done"

Shown(r) ==
    /\ tree' = r.tree
    /\ current_subscriptions' = r.current
    /\ selection' = 0

(* What the handlers of the window leave alone. *)
GuiFrame ==
    UNCHANGED <<now, exported, today, backup_file, settings, settings_file,
                pending, pc_backup>>

(* The user clicks a row of the table. *)
SelectRow ==
    \E i \in 1..Len(tree) :
        /\ selection' = i
        /\ UNCHANGED <<file, last, tree, current_subscriptions>>
        /\ GuiFrame

(* The refresh button: _refresh_list(). *)
Refresh ==
    /\ Shown(_refresh_list(file, now, {}, tree, current_subscriptions))
    /\ last' = Call("refresh", 0, NoForm, "none", file, FALSE, <<>>)
    /\ UNCHANGED file
    /\ GuiFrame

(* EnhancedSubscriptionApp._on_search *)
OnSearch ==
    \E query \in GuiQueries, category \in Categories :
        LET r == search_subscriptions(file, lower(query), category, now)
        IN  /\ IF r.raised
               THEN UNCHANGED <<tree, current_subscriptions, selection>>
               ELSE Shown(_refresh_list(file, now, {r.subs}, tree,
                                        current_subscriptions))
            /\ last' = Call("on_search", 0,
                            [query |-> query, category |-> category], "none",
                            file, r.raised, <<>>)
            /\ UNCHANGED file
            /\ GuiFrame

(* EnhancedSubscriptionApp._add_subscription *)
GuiAdd ==
    \E form \in GuiForms :
        IF dialog_result(form) = {}
        THEN /\ last' = Call("gui_add", 0, form, "none", file, TRUE, <<>>)
             /\ UNCHANGED <<file, tree, current_subscriptions, selection>>
             /\ GuiFrame
        ELSE LET res == CHOOSE x \in dialog_result(form) : TRUE
                 sub == Subscription(res.name, res.date_str, res.price,
                                     res.category, res.notes, {}, now)
                 r == save_subscription(file, sub, "none")
             IN  /\ Len(_load_all(r.file)) <= MaxSubs
                 /\ file' = r.file
                 /\ IF r.raised
                    THEN UNCHANGED <<tree, current_subscriptions, selection>>
                    ELSE Shown(_refresh_list(r.file, now, {}, tree,
                                             current_subscriptions))
                 /\ last' = Call("gui_add", sub.id, form, "none", file,
                                 r.raised, <<>>)
                 /\ GuiFrame

(* EnhancedSubscriptionApp._edit_subscription with a row selected and the  *)
(* dialog confirmed: last.id is the id handed to update_subscription and   *)
(* last.subs the row that was selected.                                    *)
GuiEdit ==
    \E form \in GuiForms :
        /\ selection # 0
        /\ selection <= Len(current_subscriptions)
        /\ dialog_result(form) # {}
        /\ LET subscription == current_subscriptions[selection]
               res == CHOOSE x \in dialog_result(form) : TRUE
               r == update_subscription(file, subscription.id, res.name,
                                        res.date_str, res.price, res.category,
                                        res.notes, "none")
           IN  /\ file' = r.file
               /\ IF r.raised
                  THEN UNCHANGED <<tree, current_subscriptions, selection>>
                  ELSE Shown(_refresh_list(r.file, now, {}, tree,
                                           current_subscriptions))
               /\ last' = Call("gui_edit", subscription.id, form, "none",
                               file, r.raised, tree[selection])
        /\ GuiFrame

(* EnhancedSubscriptionApp._delete_subscription with a row selected and    *)
(* the question answered yes.                                              *)
GuiDelete ==
    /\ selection # 0
    /\ selection <= Len(current_subscriptions)
    /\ LET subscription == current_subscriptions[selection]
           r == delete_subscription(file, subscription.id, "none")
       IN  /\ file' = r.file
           /\ IF r.raised
              THEN UNCHANGED <<tree, current_subscriptions, selection>>
              ELSE Shown(_refresh_list(r.file, now, {}, tree,
                                       current_subscriptions))
           /\ last' = Call("gui_delete", subscription.id, NoForm, "none",
                           file, r.raised, tree[selection])
    /\ GuiFrame

NextGui ==
    SelectRow \/ Refresh \/ OnSearch \/ GuiAdd \/ GuiEdit \/ GuiDelete

SpecGui == InitGui /\ [][NextGui]_vars

(* C24: edit and delete hand the store the id of the subscription shown    *)
(* in the selected row, whenever the ids of the store are distinct.        *)
C24_ActsOnSelectedRow ==
    (/\ last.op \in {"gui_edit", "gui_delete"}
     /\ \A i, j \in 1..Len(Before) : Before[i].id = Before[j].id => i = j)
    => last.id = last.subs.id

(***************************************************************************)
(* The auto-backup thread _start_background_tasks starts, running beside   *)
(* the store calls of the main thread.  A store call that writes is two    *)
(* steps: open(filename, 'w') empties the file, and the end of the with    *)
(* block leaves the whole text in it; in between the file holds a strict   *)
(* prefix of the text.                                                     *)
(***************************************************************************)
BackupStamp == "2024-02-24T00:00:00"

BackupInterval == 7

(* datetime.fromisoformat of a stored last_backup_date. *)
fromisoformat(text) == IF text = BackupStamp THEN StartDay ELSE NoDate

(* The test of _check_auto_backup; raised when fromisoformat rejects the   *)
(* stored text.  The day of the model has no time of day, so the           *)
(* comparison is made in whole days.                                       *)
backup_is_due(map, day) ==
    LET last_backup == get(map, "last_backup_date", "null")
    IN  IF get(map, "auto_backup", "true") \in {"false", "null"}
        THEN [raised |-> FALSE, due |-> FALSE]
        ELSE IF last_backup = "null" THEN [raised |-> FALSE, due |-> TRUE]
        ELSE IF ~fromisoformat(last_backup).ok
        THEN [raised |-> TRUE, due |-> FALSE]
        ELSE [raised |-> FALSE,
              due |-> toordinal(day) - toordinal(fromisoformat(last_backup))
                      > BackupInterval]

RECURSIVE PlusDays(_, _)
PlusDays(p, n) == IF n = 0 THEN p ELSE PlusDays(NextDate(p), n - 1)

(* The settings files the application can start on. *)
StartSettings ==
    {Missing, SettingsJson([last_backup_date |-> BackupStamp]),
     SettingsJson([auto_backup |-> "false"]),
     SettingsJson([last_backup_date |-> "dark"])}

(* EnhancedSubscriptionApp.__init__ up to the start of the thread. *)
InitRace ==
    /\ file \in {JsonFile(l) : l \in ViewLists(1)}
    /\ now = Epoch
    /\ last = Call("init", 0, NoForm, "none", file, FALSE, <<>>)
    /\ exported = NoExport
    /\ today \in {StartDay, PlusDays(StartDay, BackupInterval + 1)}
    /\ backup_file = Missing
    /\ settings_file \in StartSettings
    /\ settings = _load_settings(settings_file)
    /\ tree = <<>>
    /\ current_subscriptions = <<>>
    /\ selection = 0
    /\ pending = NoPending
    /\ pc_backup = "check"

RaceFrame ==
    UNCHANGED <<now, exported, today, tree, current_subscriptions, selection>>

(* The main thread enters a store call: r is what the call does when it    *)
(* runs alone.  A call that raises before open() leaves the file alone.    *)
BeginWrite(op, id, form, r) ==
    /\ pending = NoPending
    /\ Len(_load_all(r.file)) <= MaxSubs
    /\ IF r.raised THEN UNCHANGED <<file, pending>>
       ELSE file' = Truncated /\ pending' = r.file
    /\ last' = Call(op, id, form, "none", file, r.raised, <<>>)
    /\ UNCHANGED <<backup_file, settings, settings_file, pc_backup>>
    /\ RaceFrame

BeginAdd ==
    \E form \in FileForms :
        LET sub == Subscription(form.name, form.date_str, form.price,
                                form.category, form.notes, {}, now)
        IN  BeginWrite("add", sub.id, form, save_subscription(file, sub, "none"))

BeginUpdate ==
    \E id \in StoredIds(file) \cup UnknownIds, form \in FileForms :
        BeginWrite("update", id, form,
                   update_subscription(file, id, form.name, form.date_str,
                                       form.price, form.category, form.notes,
                                       "none"))

BeginDelete ==
    \E id \in StoredIds(file) \cup UnknownIds :
        BeginWrite("delete", id, NoForm, delete_subscription(file, id, "none"))

(* The with block of the store call ends: the whole text is in the file. *)
EndWrite ==
    /\ pending # NoPending
    /\ file' = pending
    /\ pending' = NoPending
    /\ UNCHANGED <<last, backup_file, settings, settings_file, pc_backup>>
    /\ RaceFrame

(* _check_auto_backup: the test of the settings. *)
CheckAutoBackup ==
    /\ pc_backup = "check"
    /\ pc_backup' = IF backup_is_due(settings, today).due THEN "copy"
                    ELSE "done"
    /\ UNCHANGED <<file, last, pending, backup_file, settings, settings_file>>
    /\ RaceFrame

(* _create_auto_backup: create_backup copies what the store file holds at  *)
(* this moment.  last.form is the store file before and after the write    *)
(* in progress, both the file itself when none is.                         *)
CopyAutoBackup ==
    /\ pc_backup = "copy"
    /\ LET r == create_backup(file, backup_file, "none")
       IN  /\ backup_file' = r.file
           /\ last' = Call("auto_backup", 0,
                           [before |-> IF pending = NoPending THEN file
                                       ELSE last.before,
                            after |-> IF pending = NoPending THEN file
                                      ELSE pending],
                           "none", file, r.raised, r.ok)
    /\ pc_backup' = "stamp"
    /\ UNCHANGED <<file, pending, settings, settings_file>>
    /\ RaceFrame

(* _create_auto_backup: settings.set('last_backup_date', ...). *)
StampAutoBackup ==
    /\ pc_backup = "stamp"
    /\ LET r == set(settings, settings_file, "last_backup_date", BackupStamp,
                    "none")
       IN  settings' = r.settings /\ settings_file' = r.file
    /\ pc_backup' = "done"
    /\ UNCHANGED <<file, last, pending, backup_file>>
    /\ RaceFrame

NextRace ==
    \/ BeginAdd \/ BeginUpdate \/ BeginDelete \/ EndWrite
    \/ CheckAutoBackup \/ CopyAutoBackup \/ StampAutoBackup

SpecRace == InitRace /\ [][NextRace]_vars

(* C23: the file the auto-backup produces holds a complete collection,     *)
(* the one before or the one after the store call it ran beside.           *)
C23_AutoBackupComplete ==
    last.op = "auto_backup"
    => /\ backup_file.kind = "json"
       /\ backup_file \in {last.form.before, last.form.after}

====
